---- MODULE Spec2Model ----
(***************************************************************************)
(* Model of scripts/eval.py: the evaluation harness that resolves an       *)
(* experiment directory (verify_experiment_dir), selects a checkpoint      *)
(* (find_checkpoint_dir), builds the output paths and restores the policy  *)
(* (main), and runs the rollout loop that appends one record per           *)
(* environment step to eval.log (run_rollouts).                            *)
(*                                                                         *)
(* Paths are sequences of components ("exp/a/params.pkl" is                *)
(* <<"exp","a","params.pkl">>).  Directory entry names that the checkpoint *)
(* glob inspects are sequences of characters, so that the glob match, the  *)
(* split("_")[-1] and int() are computed and not assumed.  Names contain   *)
(* no glob metacharacters and do not begin with a dot.                     *)
(***************************************************************************)
EXTENDS Integers, Sequences, FiniteSets, TLC

VARIABLES
    args,            \* argparse.Namespace: dir, ckpt_num, output_dir, num_rollouts
    paramsFiles,     \* file system: the paths of the params.pkl files that exist
    entries,         \* file system: os.listdir order of the experiment run directory
    dirs,            \* file system: the directories that exist under the output roots
    log,             \* file system: the lines (records) of the file at log_dir
    log0,            \* the lines of that file when the run started
    pc,              \* position in main / run_rollouts
    exc,             \* the exception that ended the run ("" while none)
    expr_dir_path, ckpt_num, ckpt_num_str,                  \* locals of main
    eval_dir_path, ckpt_eval_dir_path, ckpt_path, restored, \* locals of main, agent
    log_dir, num_rollouts,                                  \* parameters of run_rollouts
    range_pos, i, episode_reward, done, step_num,           \* locals of run_rollouts
    writer,          \* the jsonlines writer of the with block: "closed" / "open"
    opens,           \* how many times jsonlines.open has been called
    envK,            \* the environment: episode length (0: it decides at each step)
    envSteps,        \* the environment: steps taken since its last reset
    envHist          \* the environment: per reset, the rewards it has returned

vars == <<args, paramsFiles, entries, dirs, log, log0, pc, exc, expr_dir_path,
          ckpt_num, ckpt_num_str, eval_dir_path, ckpt_eval_dir_path, ckpt_path,
          restored, log_dir, num_rollouts, range_pos, i, episode_reward, done,
          step_num, writer, opens, envK, envSteps, envHist>>

fsVars   == <<paramsFiles, entries>>
mainVars == <<expr_dir_path, ckpt_num, ckpt_num_str, eval_dir_path,
              ckpt_eval_dir_path, ckpt_path, restored>>
loopVars == <<range_pos, i, episode_reward, done, step_num>>
envVars  == <<envK, envSteps, envHist>>

-----------------------------------------------------------------------------
(* Bounds of the model *)

MaxEntries   == 2    \* entries in the experiment run directory
MaxRollouts  == 2    \* num_rollouts handed to run_rollouts on its own
MaxSteps     == 2    \* steps of one episode
MainRollouts == 1    \* --num_rollouts when the whole of main is run

-----------------------------------------------------------------------------
(* Python values *)

None == <<>>
Some(x) == <<x>>

RECURSIVE Concat(_)
\* "".join(chars)
Concat(chars) ==
    IF chars = <<>> THEN "" ELSE chars[1] \o Concat(Tail(chars))

DigitVal(c) == CHOOSE d \in 0..9 : ToString(d) = c

RECURSIVE int(_)
\* int(s) of a string of decimal digits; leading zeros are accepted
int(s) ==
    IF s = <<>> THEN 0
    ELSE 10 * int(SubSeq(s, 1, Len(s) - 1)) + DigitVal(s[Len(s)])

RECURSIVE str(_)
\* str(n) of a non-negative integer, as characters
str(n) ==
    IF n < 10 THEN <<ToString(n)>>
    ELSE str(n \div 10) \o <<ToString(n % 10)>>

\* s.split("_")[-1]: what follows the last underscore
RECURSIVE SplitLast(_)
SplitLast(s) ==
    IF s = <<>> \/ s[Len(s)] = "_" THEN <<>>
    ELSE SplitLast(SubSeq(s, 1, Len(s) - 1)) \o <<s[Len(s)]>>

\* os.path.join(path, name)
Join(path, name) == Append(path, name)

-----------------------------------------------------------------------------
(* glob *)

\* glob of a path pattern whose components are literal or "*", over the
\* params.pkl files: the files with as many components, equal where literal
GlobFiles(pattern, files) ==
    {f \in files :
        /\ Len(f) = Len(pattern)
        /\ \A n \in 1..Len(pattern) : pattern[n] = "*" \/ pattern[n] = f[n]}

\* fnmatch of one name against  prefix + "*" + suffix
NameMatches(prefix, suffix, name) ==
    /\ Len(name) >= Len(prefix) + Len(suffix)
    /\ SubSeq(name, 1, Len(prefix)) = prefix
    /\ SubSeq(name, Len(name) - Len(suffix) + 1, Len(name)) = suffix

\* glob(expr_dir_path + "/" + prefix + "*" + suffix), in listing order
GlobNames(prefix, suffix, listing) ==
    SelectSeq(listing, LAMBDA name : NameMatches(prefix, suffix, name))

CheckpointPrefix == <<"checkpoint", "_">>

-----------------------------------------------------------------------------
(* verify_experiment_dir *)

params_file == "params.pkl"

\* children[0][:size - len(params_file)]: the path without "/params.pkl"
StripParamsFile(p) == SubSeq(p, 1, Len(p) - 1)

\* variant: the given directory is never looked at
verify_experiment_dir_SkipsGiven(path, files) ==
    LET children == GlobFiles(path \o <<"*", params_file>>, files)
    IN  IF Cardinality(children) = 0
        THEN [raised |-> TRUE, path |-> path]
        ELSE IF Cardinality(children) > 1
        THEN [raised |-> TRUE, path |-> path]
        ELSE [raised |-> FALSE,
              path |-> StripParamsFile(CHOOSE c \in children : TRUE)]

\* variant: several children are not told from one
verify_experiment_dir_AnyChild(path, files) ==
    LET given    == GlobFiles(path \o <<params_file>>, files)
        children == GlobFiles(path \o <<"*", params_file>>, files)
    IN  IF Cardinality(given) = 0
        THEN IF Cardinality(children) = 0
             THEN [raised |-> TRUE, path |-> path]
             ELSE [raised |-> FALSE,
                   path |-> StripParamsFile(CHOOSE c \in children : TRUE)]
        ELSE [raised |-> FALSE, path |-> path]

\* lines 110-127
verify_experiment_dir(path, files) ==
    LET given    == GlobFiles(path \o <<params_file>>, files)
        children == GlobFiles(path \o <<"*", params_file>>, files)
    IN  IF Cardinality(given) = 0
        THEN IF Cardinality(children) = 0
             THEN [raised |-> TRUE, path |-> path]
             ELSE IF Cardinality(children) > 1
             THEN [raised |-> TRUE, path |-> path]
             ELSE [raised |-> FALSE,
                   path |-> StripParamsFile(CHOOSE c \in children : TRUE)]
        ELSE [raised |-> FALSE, path |-> path]

-----------------------------------------------------------------------------
(* find_checkpoint_dir *)

\* variant: the suffix is set once and not updated with the maximum
RECURSIVE ScanCheckpoints_KeepsFirstStr(_, _, _, _)
ScanCheckpoints_KeepsFirstStr(ckpt_dirs, n, num, numstr) ==
    IF n > Len(ckpt_dirs) THEN [raised |-> FALSE, num |-> num, str |-> numstr]
    ELSE LET file_num == SplitLast(ckpt_dirs[n])
         IN  IF num < int(file_num)
             THEN ScanCheckpoints_KeepsFirstStr(ckpt_dirs, n + 1, int(file_num),
                      IF numstr = None THEN Some(file_num) ELSE numstr)
             ELSE ScanCheckpoints_KeepsFirstStr(ckpt_dirs, n + 1, num, numstr)

\* lines 159-165: the for loop over ckpt_dirs, from position n with the
\* running maximum
RECURSIVE ScanCheckpoints(_, _, _, _)
ScanCheckpoints(ckpt_dirs, n, num, numstr) ==
    IF n > Len(ckpt_dirs) THEN [raised |-> FALSE, num |-> num, str |-> numstr]
    ELSE LET file_num == SplitLast(ckpt_dirs[n])
         IN  IF num < int(file_num)
             THEN ScanCheckpoints(ckpt_dirs, n + 1, int(file_num), Some(file_num))
             ELSE ScanCheckpoints(ckpt_dirs, n + 1, num, numstr)

\* lines 146-165
find_checkpoint_dir(listing, requested) ==
    IF requested # None
    THEN LET ckpt_dirs == GlobNames(CheckpointPrefix, str(requested[1]), listing)
         IN  IF Len(ckpt_dirs) = 1
             THEN [raised |-> FALSE, num |-> requested[1],
                   str |-> Some(SplitLast(ckpt_dirs[1]))]
             ELSE [raised |-> TRUE, num |-> requested[1], str |-> None]
    ELSE ScanCheckpoints(GlobNames(CheckpointPrefix, <<>>, listing), 1, -1, None)

-----------------------------------------------------------------------------
(* Inputs *)

ExprDir == <<"exp">>
OutputDir == <<"out">>

\* where a params.pkl may lie: the given directory, two children, a grandchild
ParamsCandidates ==
    {Join(ExprDir, params_file), ExprDir \o <<"a", params_file>>,
     ExprDir \o <<"b", params_file>>, ExprDir \o <<"a", "x", params_file>>}

\* entry names of the experiment run directory
Names ==
    {CheckpointPrefix \o <<"1">>, CheckpointPrefix \o <<"2", "1">>,
     CheckpointPrefix \o <<"7">>, CheckpointPrefix \o <<"0", "7">>,
     CheckpointPrefix \o <<"1", "2">>, <<"eval">>}

\* os.listdir: up to MaxEntries distinct names, in any order
Listings ==
    {l \in UNION {[1..n -> Names] : n \in 0..MaxEntries} :
        \A a, b \in 1..Len(l) : a # b => l[a] # l[b]}

Requests == {None, Some(1), Some(7), Some(12), Some(99)}

\* rewards env.step may return
Rewards == {-1, 2}

\* a line left in eval.log by an earlier run
OldRecord == [rollout_num |-> 0, step_number |-> 1, episode_reward |-> 5]

RECURSIVE Prefixes(_)
\* the path and its ancestors: what os.makedirs(path, exist_ok=True) leaves existing
Prefixes(path) ==
    IF path = <<>> THEN {} ELSE {path} \cup Prefixes(SubSeq(path, 1, Len(path) - 1))

Parent(path) == SubSeq(path, 1, Len(path) - 1)

-----------------------------------------------------------------------------
(* Initial states *)

LoopInit ==
    /\ range_pos = 0 /\ i = -1 /\ episode_reward = 0 /\ done = FALSE
    /\ step_num = 0 /\ writer = "closed" /\ opens = 0
    /\ envSteps = 0 /\ envHist = <<>>

\* the process starts main() with some command line and some file system
Init ==
    /\ args \in [dir : {ExprDir}, ckpt_num : Requests,
                  output_dir : {None, Some(OutputDir)},
                  num_rollouts : 0..MainRollouts]
    /\ paramsFiles \in SUBSET ParamsCandidates
    /\ entries \in Listings
    /\ dirs = {} /\ log0 = <<>> /\ log = log0
    /\ pc = "verify" /\ exc = ""
    /\ expr_dir_path = args.dir
    /\ ckpt_num = -1 /\ ckpt_num_str = None
    /\ eval_dir_path = <<>> /\ ckpt_eval_dir_path = <<>> /\ ckpt_path = <<>>
    /\ restored = None
    /\ log_dir = <<>> /\ num_rollouts = 0
    /\ envK = 1
    /\ LoopInit

\* run_rollouts called on its own, on a log path that may already hold lines
InitRollouts ==
    /\ args = [dir |-> ExprDir, ckpt_num |-> None, output_dir |-> Some(OutputDir),
               num_rollouts |-> 0]
    /\ paramsFiles = {} /\ entries = <<>>
    /\ log_dir = OutputDir \o <<"ckpt_7", "eval.log">>
    /\ dirs \in {{}, Prefixes(Parent(log_dir))}
    /\ log0 \in {<<>>, <<OldRecord>>} /\ log = log0
    /\ pc = "for" /\ exc = ""
    /\ expr_dir_path = ExprDir
    /\ ckpt_num = 7 /\ ckpt_num_str = Some(<<"7">>)
    /\ eval_dir_path = OutputDir /\ ckpt_eval_dir_path = Parent(log_dir)
    /\ ckpt_path = <<>> /\ restored = None
    /\ num_rollouts \in 0..MaxRollouts
    /\ envK \in 0..MaxSteps
    /\ LoopInit

-----------------------------------------------------------------------------
(* main *)

\* line 176, the call returns
VerifyExperimentDir ==
    /\ pc = "verify"
    /\ ~verify_experiment_dir(expr_dir_path, paramsFiles).raised
    /\ expr_dir_path' = verify_experiment_dir(expr_dir_path, paramsFiles).path
    /\ pc' = "find"
    /\ UNCHANGED <<args, fsVars, dirs, log, log0, exc, ckpt_num, ckpt_num_str,
                   eval_dir_path, ckpt_eval_dir_path, ckpt_path, restored,
                   log_dir, num_rollouts, loopVars, writer, opens, envVars>>

\* line 176, the call raises InvalidExperimentDirStructure
VerifyExperimentDirRaises ==
    /\ pc = "verify"
    /\ verify_experiment_dir(expr_dir_path, paramsFiles).raised
    /\ pc' = "error" /\ exc' = "InvalidExperimentDirStructure"
    /\ UNCHANGED <<args, fsVars, dirs, log, log0, mainVars,
                   log_dir, num_rollouts, loopVars, writer, opens, envVars>>

\* line 179, the call returns
FindCheckpointDir ==
    /\ pc = "find"
    /\ ~find_checkpoint_dir(entries, args.ckpt_num).raised
    /\ ckpt_num' = find_checkpoint_dir(entries, args.ckpt_num).num
    /\ ckpt_num_str' = find_checkpoint_dir(entries, args.ckpt_num).str
    /\ pc' = "paths"
    /\ UNCHANGED <<args, fsVars, dirs, log, log0, exc, expr_dir_path,
                   eval_dir_path, ckpt_eval_dir_path, ckpt_path, restored,
                   log_dir, num_rollouts, loopVars, writer, opens, envVars>>

\* line 179, the call raises FileNotFoundError
FindCheckpointDirRaises ==
    /\ pc = "find"
    /\ find_checkpoint_dir(entries, args.ckpt_num).raised
    /\ pc' = "error" /\ exc' = "FileNotFoundError"
    /\ UNCHANGED <<args, fsVars, dirs, log, log0, mainVars,
                   log_dir, num_rollouts, loopVars, writer, opens, envVars>>

\* 'checkpoint_{}'.format(ckpt_num_str)
CkptDirName(numstr) ==
    "checkpoint_" \o (IF numstr = None THEN "None" ELSE Concat(numstr[1]))

\* variant: 'eval' is joined to the output directory too
EvalDirPath_JoinsEval(expr, output_dir) ==
    Join(IF output_dir # None THEN output_dir[1] ELSE expr, "eval")
\* lines 182 and 191-192: eval_dir_path
EvalDirPath(expr, output_dir) ==
    IF output_dir # None THEN output_dir[1] ELSE Join(expr, "eval")

\* lines 183 and 193: ckpt_eval_dir_path
CkptEvalDirPath(eval_dir, num) == Join(eval_dir, "ckpt_" \o ToString(num))

\* lines 182-193
SetPaths ==
    /\ pc = "paths"
    /\ eval_dir_path' = EvalDirPath(expr_dir_path, args.output_dir)
    /\ ckpt_eval_dir_path' = CkptEvalDirPath(eval_dir_path', ckpt_num)
    /\ ckpt_path' = expr_dir_path \o <<CkptDirName(ckpt_num_str),
                                       "checkpoint-" \o ToString(ckpt_num)>>
    /\ pc' = "makedirs"
    /\ UNCHANGED <<args, fsVars, dirs, log, log0, exc, expr_dir_path, ckpt_num,
                   ckpt_num_str, restored, log_dir, num_rollouts, loopVars,
                   writer, opens, envVars>>

\* lines 196-197
MakeDirs ==
    /\ pc = "makedirs"
    /\ dirs' = dirs \cup Prefixes(eval_dir_path) \cup Prefixes(ckpt_eval_dir_path)
    /\ pc' = "restore"
    /\ UNCHANGED <<args, fsVars, log, log0, exc, mainVars, log_dir, num_rollouts,
                   loopVars, writer, opens, envVars>>

\* lines 200-216: the configuration is loaded, the trainer restores ckpt_path,
\* the environment is built and seeded, and run_rollouts is entered
Restore ==
    /\ pc = "restore"
    /\ restored' = Some(ckpt_path)
    /\ log_dir' = Join(ckpt_eval_dir_path, "eval.log")
    /\ num_rollouts' = args.num_rollouts
    /\ pc' = "for"
    /\ UNCHANGED <<args, fsVars, dirs, log, log0, exc, expr_dir_path, ckpt_num,
                   ckpt_num_str, eval_dir_path, ckpt_eval_dir_path, ckpt_path,
                   loopVars, writer, opens, envVars>>

\* line 207: agent.restore(ckpt_path) raises
RestoreRaises ==
    /\ pc = "restore"
    /\ restored' = Some(ckpt_path)
    /\ pc' = "error" /\ exc' = "restore"
    /\ UNCHANGED <<args, fsVars, dirs, log, log0, expr_dir_path, ckpt_num,
                   ckpt_num_str, eval_dir_path, ckpt_eval_dir_path, ckpt_path,
                   log_dir, num_rollouts, loopVars, writer, opens, envVars>>

-----------------------------------------------------------------------------
(* run_rollouts *)

\* lines 81-90: the record of one step (info, actions and obs are the opaque
\* values of the environment and the policy)
\* variant: the step is numbered before it is counted
StepRecord_ZeroBased(rollout, step, reward_sum) ==
    [rollout_num |-> rollout, step_number |-> step - 1,
     episode_reward |-> reward_sum]
StepRecord(rollout, step, reward_sum) ==
    [rollout_num |-> rollout, step_number |-> step, episode_reward |-> reward_sum]

\* variant: episode_reward = reward
Accumulate_Overwrites(sum, reward) == reward
\* line 78: episode_reward += reward
Accumulate(sum, reward) == sum + reward

\* line 76, the environment's side: whether the step that is its n-th since
\* reset ends the episode
EpisodeEnds(n, choice) ==
    IF envK = 0 THEN choice \/ n >= MaxSteps ELSE n = envK

\* variant: mode "w"
OpenWrite(lines) == <<>>
\* line 72, mode "a": the lines the file holds once it is open
OpenAppend(lines) == lines

\* variant: no with block, the writer is left as it is
WithExit_Leaks == "open"
\* line 72, the end of the with block on any path: the writer's state
WithExit == "closed"

\* lines 65-68: range yields the next rollout index
ForNext ==
    /\ pc = "for"
    /\ range_pos < num_rollouts
    /\ i' = range_pos /\ range_pos' = range_pos + 1
    /\ episode_reward' = 0 /\ done' = FALSE
    /\ pc' = "reset"
    /\ UNCHANGED <<args, fsVars, dirs, log, log0, exc, mainVars, log_dir,
                   num_rollouts, step_num, writer, opens, envVars>>

\* line 65: range is exhausted, run_rollouts returns
ForExit ==
    /\ pc = "for"
    /\ range_pos >= num_rollouts
    /\ pc' = "done"
    /\ UNCHANGED <<args, fsVars, dirs, log, log0, exc, mainVars, log_dir,
                   num_rollouts, loopVars, writer, opens, envVars>>

\* lines 69-70: env.reset() returns
Reset ==
    /\ pc = "reset"
    /\ envSteps' = 0 /\ envHist' = Append(envHist, <<>>)
    /\ step_num' = 0
    /\ pc' = "open"
    /\ UNCHANGED <<args, fsVars, dirs, log, log0, exc, mainVars, log_dir,
                   num_rollouts, range_pos, i, episode_reward, done, writer,
                   opens, envK>>

\* line 69: env.reset() raises
ResetRaises ==
    /\ pc = "reset"
    /\ pc' = "error" /\ exc' = "env.reset"
    /\ UNCHANGED <<args, fsVars, dirs, log, log0, mainVars, log_dir,
                   num_rollouts, loopVars, writer, opens, envVars>>

\* line 72: jsonlines.open(log_dir, "a"); the file is created when missing,
\* its lines are kept, and the open fails when its directory does not exist
OpenLog ==
    /\ pc = "open"
    /\ opens' = opens + 1
    /\ IF Parent(log_dir) \in dirs
       THEN writer' = "open" /\ log' = OpenAppend(log)
            /\ pc' = "while" /\ exc' = exc
       ELSE writer' = "closed" /\ log' = log
            /\ pc' = "error" /\ exc' = "jsonlines.open"
    /\ UNCHANGED <<args, fsVars, dirs, log0, mainVars, log_dir,
                   num_rollouts, loopVars, envVars>>

\* line 73: not done, the loop body is entered
WhileEnter ==
    /\ pc = "while"
    /\ ~done
    /\ pc' = "compute_action"
    /\ UNCHANGED <<args, fsVars, dirs, log, log0, exc, mainVars, log_dir,
                   num_rollouts, loopVars, writer, opens, envVars>>

\* line 73: done, the with block ends and closes the writer
WhileExit ==
    /\ pc = "while"
    /\ done
    /\ writer' = WithExit
    /\ pc' = "for"
    /\ UNCHANGED <<args, fsVars, dirs, log, log0, exc, mainVars, log_dir,
                   num_rollouts, loopVars, opens, envVars>>

\* line 75: agent.compute_action(obs) returns
ComputeAction ==
    /\ pc = "compute_action"
    /\ pc' = "step"
    /\ UNCHANGED <<args, fsVars, dirs, log, log0, exc, mainVars, log_dir,
                   num_rollouts, loopVars, writer, opens, envVars>>

\* line 75: agent.compute_action(obs) raises; the with block closes the writer
ComputeActionRaises ==
    /\ pc = "compute_action"
    /\ writer' = WithExit
    /\ pc' = "error" /\ exc' = "agent.compute_action"
    /\ UNCHANGED <<args, fsVars, dirs, log, log0, mainVars, log_dir,
                   num_rollouts, loopVars, opens, envVars>>

\* lines 76-93: env.step(action) returns a reward and the done flag; the
\* counters are updated and the record is written
Step ==
    /\ pc = "step"
    /\ \E reward \in Rewards, choice \in BOOLEAN :
          /\ envSteps' = envSteps + 1
          /\ envHist' = [envHist EXCEPT ![Len(envHist)] = Append(@, reward)]
          /\ done' = EpisodeEnds(envSteps', choice)
          /\ step_num' = step_num + 1
          /\ episode_reward' = Accumulate(episode_reward, reward)
          /\ log' = Append(log, StepRecord(i, step_num', episode_reward'))
    /\ pc' = "while"
    /\ UNCHANGED <<args, fsVars, dirs, log0, exc, mainVars, log_dir,
                   num_rollouts, range_pos, i, writer, opens, envK>>

\* line 76: env.step(action) raises; the with block closes the writer
StepRaises ==
    /\ pc = "step"
    /\ writer' = WithExit
    /\ pc' = "error" /\ exc' = "env.step"
    /\ UNCHANGED <<args, fsVars, dirs, log, log0, mainVars, log_dir,
                   num_rollouts, loopVars, opens, envVars>>

-----------------------------------------------------------------------------
(* Specifications *)

RunRollouts ==
    \/ ForNext \/ ForExit \/ Reset \/ ResetRaises \/ OpenLog
    \/ WhileEnter \/ WhileExit \/ ComputeAction \/ ComputeActionRaises
    \/ Step \/ StepRaises

Next ==
    \/ VerifyExperimentDir \/ VerifyExperimentDirRaises
    \/ FindCheckpointDir \/ FindCheckpointDirRaises
    \/ SetPaths \/ MakeDirs \/ Restore \/ RestoreRaises
    \/ RunRollouts

\* the whole of main()
Spec == Init /\ [][Next]_vars

\* run_rollouts on its own
SpecRollouts == InitRollouts /\ [][RunRollouts]_vars

-----------------------------------------------------------------------------
(* What the properties speak about *)

InvalidLayout == pc = "error" /\ exc = "InvalidExperimentDirStructure"
CheckpointNotFound == pc = "error" /\ exc = "FileNotFoundError"

\* verify_experiment_dir has been called and has returned or raised
VerifyActed == pc # "verify"

\* find_checkpoint_dir has been called and has returned or raised
FindActed == pc \notin {"verify", "find"} /\ ~InvalidLayout

\* find_checkpoint_dir has just returned or raised
FindReturns == pc = "paths" \/ CheckpointNotFound

\* the file system, read directly: params.pkl lies in the given directory
GivenHasParams == Join(args.dir, params_file) \in paramsFiles

\* the file system, read directly: the immediate children holding params.pkl
ChildDirsWithParams ==
    {Parent(f) : f \in {g \in paramsFiles :
        /\ Len(g) = Len(args.dir) + 2
        /\ SubSeq(g, 1, Len(args.dir)) = args.dir}}

\* the file system, read directly: the suffixes of the checkpoint directories
IsCheckpointName(name) ==
    Len(name) > 2 /\ name[1] = "checkpoint" /\ name[2] = "_"
CheckpointSuffixes ==
    {SubSeq(entries[n], 3, Len(entries[n])) :
        n \in {m \in 1..Len(entries) : IsCheckpointName(entries[m])}}

Max(S) == CHOOSE x \in S : \A y \in S : y <= x

\* the listings that hold the same names as l, in every order
Reorderings(l) ==
    {m \in [1..Len(l) -> {l[n] : n \in 1..Len(l)}] :
        {m[n] : n \in 1..Len(m)} = {l[n] : n \in 1..Len(l)}}

\* the lines written by this run
Written == SubSeq(log, Len(log0) + 1, Len(log))

RECURSIVE SumFirst(_, _)
SumFirst(rewards, n) ==
    IF n = 0 THEN 0 ELSE SumFirst(rewards, n - 1) + rewards[n]

-----------------------------------------------------------------------------
(* Properties *)

\* C1: when params.pkl lies directly under the given path, verify_experiment_dir
\* returns the given path unchanged and raises nothing, whatever the number of
\* children that hold a params.pkl too.
C1_GivenDirReturnedUnchanged ==
    (VerifyActed /\ GivenHasParams) =>
        (~InvalidLayout /\ expr_dir_path = args.dir)

C1_Witness ==
    /\ pc = "find" /\ GivenHasParams
    /\ Cardinality(ChildDirsWithParams) = 2
    /\ expr_dir_path = args.dir

\* C2: when params.pkl does not lie directly under the given path,
\* verify_experiment_dir succeeds exactly when one immediate child holds it, and
\* then returns that child; with no such child or with several it raises
\* InvalidExperimentDirStructure and main goes no further.  A params.pkl below
\* a child does not count.
C2_ExactlyOneChild ==
    (VerifyActed /\ ~GivenHasParams) =>
        /\ ~InvalidLayout <=> Cardinality(ChildDirsWithParams) = 1
        /\ ~InvalidLayout => expr_dir_path \in ChildDirsWithParams
        /\ InvalidLayout => (expr_dir_path = args.dir /\ restored = None)

C2_Witness ==
    /\ pc = "find" /\ ~GivenHasParams
    /\ expr_dir_path = Join(args.dir, "a")
    /\ ExprDir \o <<"a", "x", params_file>> \in paramsFiles

\* C3 (as claimed): with a requested id r, find_checkpoint_dir succeeds exactly
\* when one checkpoint directory has a suffix that parses to r, and then returns
\* r with a suffix that parses to r; otherwise it raises.
C3_RequestedIdExact ==
    (FindActed /\ args.ckpt_num # None) =>
        LET r == args.ckpt_num[1]
            exact == {s \in CheckpointSuffixes : int(s) = r}
        IN  /\ ~CheckpointNotFound <=> Cardinality(exact) = 1
            /\ ~CheckpointNotFound =>
                  /\ ckpt_num = r
                  /\ ckpt_num_str # None
                  /\ int(ckpt_num_str[1]) = r

\* C4: with no requested id and at least one checkpoint directory,
\* find_checkpoint_dir returns the maximum of the parsed suffixes together with
\* a suffix, as it is on disk, that parses to that maximum; the result is the
\* same for every enumeration order when no two suffixes parse to one integer.
C4_LatestCheckpoint ==
    (FindReturns /\ args.ckpt_num = None /\ CheckpointSuffixes # {}) =>
        /\ ~CheckpointNotFound
        /\ ckpt_num = Max({int(s) : s \in CheckpointSuffixes})
        /\ ckpt_num_str # None
        /\ ckpt_num_str[1] \in CheckpointSuffixes
        /\ int(ckpt_num_str[1]) = ckpt_num
        /\ (\A s, t \in CheckpointSuffixes : int(s) = int(t) => s = t) =>
              \A l \in Reorderings(entries) :
                  /\ find_checkpoint_dir(l, None).num = ckpt_num
                  /\ find_checkpoint_dir(l, None).str = ckpt_num_str

C4_Witness ==
    /\ pc = "paths" /\ args.ckpt_num = None
    /\ Cardinality(CheckpointSuffixes) = 2
    /\ ckpt_num = 7 /\ ckpt_num_str = Some(<<"0", "7">>)

\* C5: against an environment whose episodes last exactly k >= 1 steps, a
\* complete run of N rollouts writes N * k records, grouped by rollout in the
\* order 0 .. N-1, with step_number running 1 .. k within each rollout.
C5_RecordsPerRollout ==
    (pc = "done" /\ envK >= 1) =>
        /\ Len(Written) = num_rollouts * envK
        /\ \A n \in 1..Len(Written) :
              /\ Written[n].rollout_num = (n - 1) \div envK
              /\ Written[n].step_number = ((n - 1) % envK) + 1

C5_Witness ==
    /\ pc = "done" /\ envK = 2 /\ num_rollouts = 2
    /\ Len(Written) = 4

\* C6: in every record written, episode_reward is the sum of the rewards that
\* env.step returned for steps 1 .. step_number of the record's own rollout.
C6_RunningSum ==
    \A n \in 1..Len(Written) :
        LET rec == Written[n]
        IN  /\ rec.rollout_num + 1 \in 1..Len(envHist)
            /\ rec.step_number \in 1..Len(envHist[rec.rollout_num + 1])
            /\ rec.episode_reward =
                   SumFirst(envHist[rec.rollout_num + 1], rec.step_number)

C6_Witness ==
    \E n \in 1..Len(Written) :
        /\ Written[n].rollout_num = 1 /\ Written[n].step_number = 2
        /\ Len(envHist[1]) = 2

\* C7: eval.log is append-only: the lines it held before the run stay first,
\* a step of the run changes the file only by adding one record at its end, and
\* a raising policy or environment call writes nothing and ends the run with
\* every record written so far still in the file.
C7_AppendOnly ==
    /\ [](Len(log) >= Len(log0) /\ SubSeq(log, 1, Len(log0)) = log0)
    /\ [][/\ Len(log') \in {Len(log), Len(log) + 1}
          /\ SubSeq(log', 1, Len(log)) = log
          /\ (pc' = "error" \/ pc = "error") => log' = log]_vars

C7_Witness ==
    /\ pc = "error" /\ exc = "env.step"
    /\ log0 # <<>> /\ Len(Written) = 3 /\ range_pos = 2

\* C8 (as claimed): the log path is {output_dir or experiment_dir}/eval/ckpt_<n>/eval.log.
C8_LogPathUnderEval ==
    log_dir # <<>> =>
        log_dir = (IF args.output_dir # None THEN args.output_dir[1]
                   ELSE expr_dir_path)
                  \o <<"eval", "ckpt_" \o ToString(ckpt_num), "eval.log">>

\* C8 (amended): the log path is E/eval/ckpt_<n>/eval.log without --output_dir
\* and O/ckpt_<n>/eval.log with --output_dir O, and its directory exists from
\* the moment run_rollouts is entered.
C8_LogPath ==
    log_dir # <<>> =>
        /\ log_dir = (IF args.output_dir # None THEN args.output_dir[1]
                      ELSE expr_dir_path \o <<"eval">>)
                     \o <<"ckpt_" \o ToString(ckpt_num), "eval.log">>
        /\ Parent(log_dir) \in dirs

C8_Witness ==
    /\ args.output_dir # None /\ Len(Written) = 1
    /\ log_dir = <<"out", "ckpt_12", "eval.log">>

\* C9 (as claimed): with no checkpoint directory and no requested id,
\* find_checkpoint_dir returns -1 and no suffix without raising, and main then
\* creates no output directory, builds no checkpoint path and restores nothing.
C9_SentinelChecked ==
    (FindActed /\ args.ckpt_num = None /\ CheckpointSuffixes = {}) =>
        /\ ~CheckpointNotFound
        /\ ckpt_num = -1 /\ ckpt_num_str = None
        /\ dirs = {} /\ ckpt_path = <<>> /\ restored = None

\* C10 (as claimed): the log file is opened and closed around each record, so
\* no policy or environment call is made while it is open.
C10_ClosedAcrossCalls ==
    pc \in {"reset", "compute_action", "step", "done", "error"} =>
        writer = "closed"

\* C10 (amended): the log file is opened once per rollout whose env.reset has
\* returned, and stays open across the compute_action and step calls of that
\* rollout; it is closed when the rollout ends, is never open across env.reset
\* or between rollouts, and is closed on every exit path.
C10_OpenPerRollout ==
    /\ writer = "open" <=> pc \in {"while", "compute_action", "step"}
    /\ opens = Len(envHist) - (IF pc = "open" THEN 1 ELSE 0)
    /\ range_pos = Len(envHist)
                     + (IF pc = "reset" \/ exc = "env.reset" THEN 1 ELSE 0)

C10_Witness ==
    /\ pc = "step" /\ writer = "open"
    /\ step_num = 1 /\ range_pos = 2 /\ opens = 2

====
